---- MODULE Spec2Model ----
(***************************************************************************)
(* Model of backend/main.py: the in-memory DocumentStore (chunking,        *)
(* embedding, cosine-similarity retrieval), text extraction, and the       *)
(* /api/upload, /api/generate and /health handlers.                        *)
(*                                                                         *)
(* Strings are sequences of code points; bytes are sequences of 0..255.    *)
(* The embedding provider, the generation provider, the temporary-file     *)
(* write and the textract utility are external: every call to one of them  *)
(* takes its outcome from a script the action draws from a bounded set.    *)
(***************************************************************************)
EXTENDS Integers, Sequences, FiniteSets, TLC

VARIABLES
    chunk_size,          \* DocumentStore.chunk_size
    chunk_overlap,       \* DocumentStore.chunk_overlap
    documents,           \* DocumentStore.documents
    TEXTRACT_AVAILABLE,  \* module flag set by the import at start-up
    temp_files,          \* number of temporary files present on disk
    text, start, chunks, pc,  \* locals of a running _create_chunks call
    op, arg, ret         \* the last completed call, its inputs, its outcome

vars == <<chunk_size, chunk_overlap, documents, TEXTRACT_AVAILABLE, temp_files,
          text, start, chunks, pc, op, arg, ret>>

(***************************************************************************)
(* Bounds of the model                                                     *)
(***************************************************************************)
MaxLen == 4          \* longest text given to the stepwise chunker
MaxChar == 2         \* code points 1..MaxChar in those texts
MaxSize == 3         \* largest chunk_size / chunk_overlap tried by the chunker
MaxIter == 6         \* loop iterations explored of a chunker call

(***************************************************************************)
(* Python built-ins                                                        *)
(***************************************************************************)
Min(a, b) == IF a < b THEN a ELSE b
Max(a, b) == IF a > b THEN a ELSE b

\* Python's normalisation of one slice bound against a length
PyIndex(i, n) == IF i < 0 THEN Max(i + n, 0) ELSE Min(i, n)

\* s[lo:hi] for a str or a list
PySlice(s, lo, hi) ==
    LET l == PyIndex(lo, Len(s))
        h == PyIndex(hi, Len(s))
    IN  IF h > l THEN SubSeq(s, l + 1, h) ELSE <<>>

\* s[lo:]
PySliceFrom(s, lo) ==
    LET l == PyIndex(lo, Len(s))
    IN  SubSeq(s, l + 1, Len(s))

\* the text whose i-th character is the code point i
Ident(n) == SubSeq([i \in 1..n |-> i], 1, n)

SeqsUpTo(S, n) == UNION {[1..k -> S] : k \in 0..n}

(***************************************************************************)
(* DocumentStore._create_chunks                                            *)
(***************************************************************************)
\* while start < len(text)
LoopCondLe(s, t) == s <= Len(t)
LoopCond(s, t) == s < Len(t)

\* end = start + self.chunk_size ; chunk = text[start:end]
ChunkAtShort(t, s, size) == PySlice(t, s, (s + size) - 1)
ChunkAt(t, s, size) == PySlice(t, s, s + size)

\* start = end - self.chunk_overlap
NextStartNoOverlap(s, size, overlap) == s + size
NextStart(s, size, overlap) == (s + size) - overlap

RECURSIVE CreateChunksFrom(_, _, _, _, _)
CreateChunksFrom(t, size, overlap, s, acc) ==
    IF LoopCond(s, t)
    THEN CreateChunksFrom(t, size, overlap, NextStart(s, size, overlap),
                          Append(acc, ChunkAt(t, s, size)))
    ELSE acc

\* the whole call, for the configurations on which the loop ends
CreateChunks(t, size, overlap) == CreateChunksFrom(t, size, overlap, 0, <<>>)

(***************************************************************************)
(* SpecChunker: one _create_chunks call, one loop iteration per step, for  *)
(* every text and every (chunk_size, chunk_overlap) within the bounds.     *)
(***************************************************************************)
ChunkerTexts == SeqsUpTo(1..MaxChar, MaxLen) \cup {Ident(n) : n \in 0..MaxLen}

NoCall == [none |-> TRUE]

InitChunker ==
    /\ chunk_size \in 1..MaxSize
    /\ chunk_overlap \in 0..MaxSize
    /\ documents = <<>>
    /\ TEXTRACT_AVAILABLE = TRUE
    /\ temp_files = 0
    /\ text \in ChunkerTexts
    /\ start = 0
    /\ chunks = <<>>
    /\ pc = "loop"
    /\ op = "_create_chunks"
    /\ arg = NoCall
    /\ ret = NoCall

\* one iteration of the while loop (lines 79-83)
CreateChunksStep ==
    /\ pc = "loop"
    /\ LoopCond(start, text)
    /\ Len(chunks) < MaxIter
    /\ chunks' = Append(chunks, ChunkAt(text, start, chunk_size))
    /\ start' = NextStart(start, chunk_size, chunk_overlap)
    /\ UNCHANGED <<chunk_size, chunk_overlap, documents, TEXTRACT_AVAILABLE,
                   temp_files, text, pc, op, arg, ret>>

\* the loop condition fails: return chunks (line 84)
CreateChunksReturn ==
    /\ pc = "loop"
    /\ ~LoopCond(start, text)
    /\ pc' = "done"
    /\ UNCHANGED <<chunk_size, chunk_overlap, documents, TEXTRACT_AVAILABLE,
                   temp_files, text, start, chunks, op, arg, ret>>

NextChunker == CreateChunksStep \/ CreateChunksReturn

SpecChunker == InitChunker /\ [][NextChunker]_vars

(***************************************************************************)
(* Chunker claims                                                          *)
(***************************************************************************)
RECURSIVE ConcatAll(_)
ConcatAll(ss) == IF ss = <<>> THEN <<>> ELSE ss[1] \o ConcatAll(Tail(ss))

\* first chunk whole, every later chunk without its first `overlap` characters
Reconstruct(cs, overlap) ==
    ConcatAll([i \in 1..Len(cs) |->
                  IF i = 1 THEN cs[i] ELSE PySliceFrom(cs[i], overlap)])

\* C1: for 0 <= chunk_overlap < chunk_size, the returned chunks with the
\* overlaps removed concatenate to exactly the input text.
C1_Reconstructs ==
    (pc = "done" /\ chunk_overlap < chunk_size)
        => Reconstruct(chunks, chunk_overlap) = text

C1_Witness ==
    /\ pc = "done"
    /\ chunk_overlap > 0 /\ chunk_overlap < chunk_size
    /\ Len(chunks) >= 3
    /\ Len(chunks[Len(chunks)]) < chunk_overlap
    /\ Reconstruct(chunks, chunk_overlap) = text

\* C2 as stated: the empty string gives zero chunks and every non-empty
\* string shorter than chunk_size gives exactly one chunk, the whole string.
C2_Original ==
    pc = "done" =>
        /\ (text = <<>> => chunks = <<>>)
        /\ ((Len(text) > 0 /\ Len(text) < chunk_size) => chunks = <<text>>)

\* C2 amended: the empty string gives zero chunks; a non-empty string of
\* length at most chunk_size - chunk_overlap gives exactly one chunk, the
\* whole string; a non-empty string shorter than chunk_size but longer than
\* chunk_size - chunk_overlap gives the whole string as first chunk followed
\* by at least one more chunk.
C2_ShortText ==
    pc = "done" =>
        /\ (text = <<>> => chunks = <<>>)
        /\ ((Len(text) > 0 /\ Len(text) <= chunk_size - chunk_overlap)
                => chunks = <<text>>)
        /\ ((Len(text) > 0 /\ Len(text) > chunk_size - chunk_overlap
                /\ Len(text) < chunk_size)
                => (Len(chunks) >= 2 /\ chunks[1] = text))

C2_Witness ==
    /\ pc = "done"
    /\ Len(text) > 0
    /\ Len(text) = chunk_size - chunk_overlap
    /\ chunk_overlap > 0
    /\ chunks = <<text>>

\* C4: the call terminates: it never runs more iterations than the text has
\* characters, and with chunk_overlap >= chunk_size on a non-empty text it
\* fails with a configuration error before emitting any chunk.
C4_Terminates ==
    /\ Len(chunks) <= Len(text)
    /\ ((chunk_overlap >= chunk_size /\ Len(text) > 0) => chunks = <<>>)


(***************************************************************************)
(* Bounds and inputs of the store model                                    *)
(***************************************************************************)
MaxStore == 3          \* add_document is explored while its result has at most
                       \* this many entries
MaxDefaultStore == 4   \* under the default configuration: while store and
                       \* document together have at most this many chunks
MaxTopK == 2           \* largest top_k passed to get_relevant_chunks
MaxNegTopK == 1        \* top_k ranges down to -MaxNegTopK
StoreChunkSize == 3    \* the small configuration of Spec and SpecUpload
StoreChunkOverlap == 1

DefaultChunkSize == 1000
DefaultChunkOverlap == 200
DefaultTopK == 3
MaxFilesPerUpload == 5

NameA == <<97, 46, 116, 120, 116>>            \* "a.txt"
NameB == <<98, 46, 116, 120, 116>>            \* "b.txt"

\* documents handed to add_document under the default configuration
ScenarioText == Ident(2500)
DefaultInputs == {<<(<<>>), NameA>>, <<ScenarioText, NameA>>,
                  <<Ident(900), NameB>>}

\* documents handed to add_document under the small configuration: no chunk,
\* one chunk, three chunks
StoreStep == StoreChunkSize - StoreChunkOverlap
SmallInputs == {<<(<<>>), NameA>>, <<Ident(StoreStep), NameA>>,
                <<Ident(2 * StoreStep + 1), NameB>>}

\* answers of the embedding provider
Failure == [ok |-> FALSE, embedding |-> <<>>]
Success(v) == [ok |-> TRUE, embedding |-> v]
DocVecs == {<<1, 0>>, <<3, 4>>}
QueryVecs == {<<1, 0>>, <<0, 0>>, <<0 - 3, 0 - 4>>}
DocResponses == {Success(v) : v \in DocVecs} \cup {Failure}
QueryResponses == {Success(v) : v \in QueryVecs} \cup {Failure}

\* the answers the provider gives during one add_document of n chunks: n
\* successes, or fewer successes followed by the failure that ends the call
ProviderScripts(n) ==
    {sc \in SeqsUpTo(DocResponses, n) :
        /\ \A i \in 1..(Len(sc) - 1) : sc[i].ok
        /\ Len(sc) < n => (Len(sc) > 0 /\ ~sc[Len(sc)].ok)}

\* answers to the query embedding of a /api/generate
GenQueryResponses == {Success(<<1, 0>>), Failure}

Queries == {<<113>>}                          \* "q"
TopKs == (0 - MaxNegTopK)..MaxTopK

(***************************************************************************)
(* DocumentStore._generate_embedding: the provider's answer is returned,   *)
(* its failure is logged and re-raised.                                    *)
(***************************************************************************)
GenerateEmbedding(txt, response) ==
    IF response.ok
    THEN [raised |-> FALSE, embedding |-> response.embedding]
    ELSE [raised |-> TRUE, embedding |-> <<>>]

(***************************************************************************)
(* DocumentStore.add_document                                              *)
(***************************************************************************)
StoredChunk(chunk, embedding, filename) ==
    [content |-> chunk, embedding |-> embedding, filename |-> filename]

\* self.documents.append({...})
StoreInsertFront(docs, entry) == <<entry>> \o docs
StoreAppend(docs, entry) == Append(docs, entry)

\* the for loop of lines 63-69; script[i] is the provider's answer to the
\* i-th embedding call of this add_document
RECURSIVE AddLoop(_, _, _, _, _)
AddLoop(docs, cs, filename, script, i) ==
    IF i > Len(cs)
    THEN [documents |-> docs, raised |-> FALSE, embed_calls |-> i - 1]
    ELSE LET e == GenerateEmbedding(cs[i], script[i])
         IN  IF e.raised
             THEN [documents |-> docs, raised |-> TRUE, embed_calls |-> i]
             ELSE AddLoop(StoreAppend(docs, StoredChunk(cs[i], e.embedding, filename)),
                          cs, filename, script, i + 1)

\* lines 62-73 on the chunks of line 59: a failure is logged and re-raised,
\* the entries appended before it stay
AddDocumentAtomic(docs, cs, filename, script) ==
    LET r == AddLoop(docs, cs, filename, script, 1)
    IN  IF r.raised THEN [r EXCEPT !.documents = docs] ELSE r
AddDocument(docs, cs, filename, script) ==
    AddLoop(docs, cs, filename, script, 1)

(***************************************************************************)
(* Cosine similarity (sklearn.metrics.pairwise.cosine_similarity) as an    *)
(* exact fraction; the vectors of the model have integer norms.  A vector  *)
(* of norm 0 is left unnormalised by sklearn, so its similarity is 0.      *)
(***************************************************************************)
Dot(a, b) == a[1] * b[1] + a[2] * b[2]
Norm(a) == CHOOSE n \in 0..Dot(a, a) : n * n = Dot(a, a)
CosineSimilarity(a, b) ==
    IF Norm(a) = 0 \/ Norm(b) = 0
    THEN [num |-> 0, den |-> 1]
    ELSE [num |-> Dot(a, b), den |-> Norm(a) * Norm(b)]

FracLess(x, y) == x.num * y.den < y.num * x.den
FracEq(x, y) == x.num * y.den = y.num * x.den

\* str < str: by code point, a proper prefix is smaller
RECURSIVE FirstDiff(_, _, _)
FirstDiff(a, b, i) ==
    IF i > Len(a) \/ i > Len(b) \/ a[i] # b[i] THEN i ELSE FirstDiff(a, b, i + 1)

StrLess(a, b) ==
    IF a = b THEN FALSE
    ELSE LET d == FirstDiff(a, b, 1)
         IN  IF d > Len(a) \/ d > Len(b) THEN Len(a) < Len(b) ELSE a[d] < b[d]

\* (similarity, content) < (similarity, content)
TupleLess(t, u) ==
    \/ FracLess(t[1], u[1])
    \/ FracEq(t[1], u[1]) /\ StrLess(t[2], u[2])

\* similarities.sort(reverse=True): stable, descending
RECURSIVE InsertAsc(_, _)
InsertAsc(x, s) ==
    IF s = <<>> THEN <<x>>
    ELSE IF TupleLess(s[1], x) THEN <<s[1]>> \o InsertAsc(x, Tail(s))
    ELSE <<x>> \o s
RECURSIVE SortAsc(_)
SortAsc(s) == IF s = <<>> THEN <<>> ELSE InsertAsc(s[1], SortAsc(Tail(s)))

RECURSIVE InsertDesc(_, _)
InsertDesc(x, s) ==
    IF s = <<>> THEN <<x>>
    ELSE IF TupleLess(x, s[1]) THEN <<s[1]>> \o InsertDesc(x, Tail(s))
    ELSE <<x>> \o s
RECURSIVE SortDesc(_)
SortDesc(s) == IF s = <<>> THEN <<>> ELSE InsertDesc(s[1], SortDesc(Tail(s)))

(***************************************************************************)
(* DocumentStore.get_relevant_chunks                                       *)
(***************************************************************************)
\* the (similarity, content) list built by lines 107-113
Similarities(docs, query_embedding) ==
    [i \in 1..Len(docs) |->
        <<CosineSimilarity(query_embedding, docs[i].embedding), docs[i].content>>]

\* similarities[:top_k]
TopSlice(sorted, top_k) == PySlice(sorted, 0, top_k)

\* the except branch of lines 119-121: log, return []
RetrievalErrorReraised(calls) ==
    [result |-> <<>>, ranked |-> <<>>, raised |-> TRUE, embed_calls |-> calls]
RetrievalError(calls) ==
    [result |-> <<>>, ranked |-> <<>>, raised |-> FALSE, embed_calls |-> calls]

GetRelevantChunks(docs, query, top_k, response) ==
    IF docs = <<>>
    THEN [result |-> <<>>, ranked |-> <<>>, raised |-> FALSE, embed_calls |-> 0]
    ELSE LET q == GenerateEmbedding(query, response)
         IN  IF q.raised
             THEN RetrievalError(1)
             ELSE LET ranked == TopSlice(SortDesc(Similarities(docs, q.embedding)),
                                         top_k)
                  IN  [result |-> [i \in 1..Len(ranked) |-> ranked[i][2]],
                       ranked |-> ranked, raised |-> FALSE, embed_calls |-> 1]

(***************************************************************************)
(* POST /api/generate and GET /health                                      *)
(***************************************************************************)
ContextHeader == <<10, 10, 82, 101, 108, 101, 118, 97, 110, 116, 32, 114, 101,
                   102, 101, 114, 101, 110, 99, 101, 32, 109, 97, 116, 101,
                   114, 105, 97, 108, 115, 58, 10>>
ContextSep == <<10, 45, 45, 45, 10>>
PromptPrefix == <<71, 101, 110, 101, 114, 97, 116, 101, 32, 97, 32, 103, 114,
                  97, 110, 116, 32, 112, 114, 111, 112, 111, 115, 97, 108, 32,
                  98, 97, 115, 101, 100, 32, 111, 110, 32, 116, 104, 101, 115,
                  101, 32, 114, 101, 113, 117, 105, 114, 101, 109, 101, 110,
                  116, 115, 58, 32>>

\* sep.join(parts)
RECURSIVE Join(_, _)
Join(parts, sep) ==
    IF parts = <<>> THEN <<>>
    ELSE IF Len(parts) = 1 THEN parts[1]
    ELSE parts[1] \o sep \o Join(Tail(parts), sep)

\* request bodies: no "requirements" key, an empty one, a non-empty one
Bodies == {<<>>} \cup {[requirements |-> r] : r \in {<<>>} \cup Queries}
GenResponses == {[ok |-> TRUE, content |-> <<80>>], [ok |-> FALSE, content |-> <<>>]}

\* not body.get("requirements")
NoRequirements(body) ==
    \/ "requirements" \notin DOMAIN body
    \/ body.requirements = <<>>

\* lines 247-252
BuildContext(relevant_chunks) ==
    IF relevant_chunks # <<>>
    THEN ContextHeader \o Join(relevant_chunks, ContextSep)
    ELSE <<>>
BuildPrompt(requirements, context) ==
    PromptPrefix \o requirements \o <<10>> \o context

GenerateProposal(docs, body, embed_response, gen_response) ==
    IF NoRequirements(body)
    THEN [status |-> 400, gen_calls |-> 0, embed_calls |-> 0, prompt |-> <<>>,
          proposal |-> <<>>]
    ELSE LET rel == GetRelevantChunks(docs, body.requirements, DefaultTopK,
                                      embed_response)
             prompt == BuildPrompt(body.requirements, BuildContext(rel.result))
         IN  IF rel.raised
             THEN [status |-> 500, gen_calls |-> 0, embed_calls |-> rel.embed_calls,
                   prompt |-> <<>>, proposal |-> <<>>]
             ELSE IF gen_response.ok
             THEN [status |-> 200, gen_calls |-> 1, embed_calls |-> rel.embed_calls,
                   prompt |-> prompt, proposal |-> gen_response.content]
             ELSE [status |-> 500, gen_calls |-> 1, embed_calls |-> rel.embed_calls,
                   prompt |-> prompt, proposal |-> <<>>]

(***************************************************************************)
(* Calls on the store                                                      *)
(***************************************************************************)
StoreFrame == UNCHANGED <<chunk_size, chunk_overlap, TEXTRACT_AVAILABLE,
                          temp_files, text, start, chunks, pc>>

\* document_store.add_document(content, filename).  The call is explored
\* while the store it leaves (whole = FALSE), or the store together with all
\* chunks of the document (whole = TRUE), has at most cap entries.
AddDocumentWith(inputs, cap, whole) ==
    \E in \in inputs :
      LET cs == CreateChunks(in[1], chunk_size, chunk_overlap) IN
      \E script \in ProviderScripts(Len(cs)) :
        LET r == AddDocument(documents, cs, in[2], script)
        IN  /\ (IF whole THEN Len(documents) + Len(cs) ELSE Len(r.documents)) <= cap
            /\ documents' = r.documents
            /\ op' = "add_document"
            /\ arg' = [content |-> in[1], filename |-> in[2], script |-> script]
            /\ ret' = [raised |-> r.raised, embed_calls |-> r.embed_calls]
            /\ StoreFrame

AddDocumentCall == AddDocumentWith(SmallInputs, MaxStore, FALSE)

AddDefaultDocumentCall == AddDocumentWith(DefaultInputs, MaxDefaultStore, TRUE)

\* document_store.get_relevant_chunks(query, top_k)
GetRelevantChunksCall ==
    \E query \in Queries, top_k \in TopKs, response \in QueryResponses :
      LET r == GetRelevantChunks(documents, query, top_k, response)
      IN  /\ op' = "get_relevant_chunks"
          /\ arg' = [query |-> query, top_k |-> top_k, response |-> response]
          /\ ret' = r
          /\ UNCHANGED documents
          /\ StoreFrame

\* POST /api/generate
GenerateProposalCall ==
    \E body \in Bodies, er \in GenQueryResponses, gr \in GenResponses :
      /\ op' = "generate_proposal"
      /\ arg' = [body |-> body, embed_response |-> er, gen_response |-> gr]
      /\ ret' = GenerateProposal(documents, body, er, gr)
      /\ UNCHANGED documents
      /\ StoreFrame

\* GET /health
HealthCheckCall ==
    /\ op' = "health_check"
    /\ arg' = NoCall
    /\ ret' = [status |-> "healthy", document_count |-> Len(documents),
               textract_available |-> TEXTRACT_AVAILABLE]
    /\ UNCHANGED documents
    /\ StoreFrame

(***************************************************************************)
(* SpecDefault: the store as DocumentStore.__init__ leaves it              *)
(* (chunk_size 1000, chunk_overlap 200) ingesting long documents.          *)
(***************************************************************************)
InitDefault ==
    /\ chunk_size = DefaultChunkSize
    /\ chunk_overlap = DefaultChunkOverlap
    /\ documents = <<>>
    /\ TEXTRACT_AVAILABLE = TRUE
    /\ temp_files = 0
    /\ text = <<>>
    /\ start = 0
    /\ chunks = <<>>
    /\ pc = "idle"
    /\ op = "__init__"
    /\ arg = NoCall
    /\ ret = NoCall

NextDefault == AddDefaultDocumentCall \/ HealthCheckCall

SpecDefault == InitDefault /\ [][NextDefault]_vars

(***************************************************************************)
(* Spec: every call on a store whose two configuration attributes hold a   *)
(* small configuration, so that short documents split into several chunks. *)
(***************************************************************************)
Init ==
    /\ chunk_size = StoreChunkSize
    /\ chunk_overlap = StoreChunkOverlap
    /\ documents = <<>>
    /\ TEXTRACT_AVAILABLE = TRUE
    /\ temp_files = 0
    /\ text = <<>>
    /\ start = 0
    /\ chunks = <<>>
    /\ pc = "idle"
    /\ op = "__init__"
    /\ arg = NoCall
    /\ ret = NoCall

Next ==
    \/ AddDocumentCall
    \/ GetRelevantChunksCall
    \/ GenerateProposalCall
    \/ HealthCheckCall

Spec == Init /\ [][Next]_vars

(***************************************************************************)
(* Store claims                                                            *)
(***************************************************************************)
IsPrefix(a, b) == Len(a) <= Len(b) /\ SubSeq(b, 1, Len(a)) = a

\* the entries a step appended
Appended(before, after) == SubSeq(after, Len(before) + 1, Len(after))

ScenarioIngested ==
    /\ op' = "add_document"
    /\ arg'.content = ScenarioText
    /\ ~ret'.raised

\* the chunks of t of the given lengths at the given start offsets
ChunksAt(t, offsets, lengths) ==
    [i \in 1..Len(offsets) |-> SubSeq(t, offsets[i] + 1, offsets[i] + lengths[i])]

Contents(entries) == [i \in 1..Len(entries) |-> entries[i].content]

\* C3 as stated: ingesting the 2500-character text under chunk_size 1000 and
\* chunk_overlap 200 appends exactly 3 chunks, of lengths 1000, 1000 and 700,
\* taken at offsets 0, 800 and 1600.
C3_Original ==
    [][ScenarioIngested =>
          /\ IsPrefix(documents, documents')
          /\ Contents(Appended(documents, documents'))
                = ChunksAt(ScenarioText, <<0, 800, 1600>>, <<1000, 1000, 700>>)]_vars

\* C3 amended: it appends exactly 4 chunks, of lengths 1000, 1000, 900 and
\* 100, taken at offsets 0, 800, 1600 and 2400.
C3_Scenario ==
    [][ScenarioIngested =>
          /\ IsPrefix(documents, documents')
          /\ Contents(Appended(documents, documents'))
                = ChunksAt(ScenarioText, <<0, 800, 1600, 2400>>,
                           <<1000, 1000, 900, 100>>)]_vars

C3_Witness ==
    /\ op = "add_document"
    /\ arg.content = ScenarioText
    /\ ~ret.raised
    /\ Len(documents) = 4
    /\ Len(documents[3].content) = 900
    /\ Len(documents[4].content) = 100

TupleEq(t, u) == FracEq(t[1], u[1]) /\ t[2] = u[2]
Count(s, t) == Cardinality({i \in 1..Len(s) : TupleEq(s[i], t)})

\* what C5 asks of a get_relevant_chunks(query, top_k = k) whose embedding
\* succeeded; ret.ranked is the list similarities[:top_k] the contents of
\* ret.result are taken from
RankedTopK(k) ==
    LET all == Similarities(documents, arg.response.embedding)
        ranked == ret.ranked
    IN  /\ Len(ret.result) <= k
        /\ ret.result = [i \in 1..Len(ranked) |-> ranked[i][2]]
        /\ \A i \in 1..Len(ranked) : Count(ranked, ranked[i]) <= Count(all, ranked[i])
        /\ \A i \in 1..(Len(ranked) - 1) : ~FracLess(ranked[i][1], ranked[i + 1][1])
        /\ \A j \in 1..Len(all) :
               Count(all, all[j]) > Count(ranked, all[j])
                   => \A i \in 1..Len(ranked) : ~FracLess(ranked[i][1], all[j][1])

\* C5 as stated: for every integer top_k = k, at most k contents are returned,
\* each of a stored chunk, in non-increasing order of similarity, and no
\* stored chunk left out is strictly more similar than a returned one.
C5_Original ==
    (op = "get_relevant_chunks" /\ arg.response.ok) => RankedTopK(arg.top_k)

\* C5 amended: the same for every integer top_k = k >= 0.
C5_TopK ==
    (op = "get_relevant_chunks" /\ arg.response.ok /\ arg.top_k >= 0)
        => RankedTopK(arg.top_k)

C5_Witness ==
    /\ op = "get_relevant_chunks"
    /\ arg.response.ok
    /\ arg.top_k = 2
    /\ Len(documents) = 3
    /\ Len(ret.result) = 2
    /\ FracLess(ret.ranked[2][1], ret.ranked[1][1])
    /\ FracLess(CosineSimilarity(arg.response.embedding, documents[1].embedding),
                ret.ranked[1][1])
    /\ ret.result[1] = documents[3].content

\* number of answers of the script before its first failure
RECURSIVE Successes(_, _)
Successes(script, i) ==
    IF i > Len(script) \/ ~script[i].ok THEN i - 1 ELSE Successes(script, i + 1)

\* C6: an add_document whose provider succeeds on the first i of n chunks
\* and fails on chunk i+1 raises, and leaves the store as it was followed by
\* the first i chunks in document order, each with its embedding and the
\* filename; without a failure it appends all n and does not raise.
C6_PartialIngestion ==
    [][op' = "add_document" =>
          LET cs == CreateChunks(arg'.content, chunk_size, chunk_overlap)
              i == Successes(arg'.script, 1)
          IN  /\ ret'.raised <=> i < Len(cs)
              /\ documents' = documents \o
                    [j \in 1..i |-> [content |-> cs[j],
                                     embedding |-> arg'.script[j].embedding,
                                     filename |-> arg'.filename]]]_vars

C6_Witness ==
    /\ op = "add_document"
    /\ ret.raised
    /\ Len(arg.script) = 3
    /\ Successes(arg.script, 1) = 2
    /\ Len(documents) = 3
    /\ documents[1].filename # arg.filename
    /\ documents[3].filename = arg.filename

\* C7: get_relevant_chunks never raises; on an empty store it returns the
\* empty sequence without calling the provider; when embedding the query
\* fails it returns the empty sequence; and /api/generate with non-empty
\* requirements then still issues its one generation call, with a prompt
\* that has no context block.
C7_RetrievalNeverRaises ==
    /\ op = "get_relevant_chunks" =>
          /\ ~ret.raised
          /\ documents = <<>> => (ret.result = <<>> /\ ret.embed_calls = 0)
          /\ ~arg.response.ok => ret.result = <<>>
    /\ (op = "generate_proposal" /\ ~NoRequirements(arg.body)
           /\ (documents = <<>> \/ ~arg.embed_response.ok)) =>
          /\ ret.gen_calls = 1
          /\ ret.prompt = PromptPrefix \o arg.body.requirements \o <<10>>
          /\ ret.status = IF arg.gen_response.ok THEN 200 ELSE 500

C7_Witness ==
    /\ op = "generate_proposal"
    /\ ~NoRequirements(arg.body)
    /\ documents # <<>>
    /\ ~arg.embed_response.ok
    /\ ret.gen_calls = 1
    /\ ret.status = 200

\* C10: every step leaves the earlier store as a prefix of the later one,
\* and get_relevant_chunks, generate and health leave it unchanged.
C10_AppendOnly ==
    [][/\ IsPrefix(documents, documents')
       /\ op' \in {"get_relevant_chunks", "generate_proposal", "health_check"}
             => documents' = documents]_vars

C10_Witness ==
    /\ op = "add_document"
    /\ Len(documents) = 3
    /\ Len(arg.script) = 1
    /\ ~ret.raised

(***************************************************************************)
(* Text extraction                                                         *)
(***************************************************************************)
MaxExtraFiles == 1     \* an upload carries up to MaxFilesPerUpload + this many
MaxFailAt == 1         \* the provider fails at call 1..MaxFailAt, or never
MaxTemp == 2           \* calls are explored while at most this many temporary
                       \* files are left on disk
MaxUploadPre == 0      \* uploads are explored on stores of at most this size

\* str.lower() on the code points A-Z
LowerChar(c) == IF c >= 65 /\ c <= 90 THEN c + 32 ELSE c
Lower(s) == [i \in 1..Len(s) |-> LowerChar(s[i])]

\* s.endswith(suffix), s.endswith((suffix, ...))
EndsWith(s, suffix) ==
    /\ Len(suffix) <= Len(s)
    /\ SubSeq(s, Len(s) - Len(suffix) + 1, Len(s)) = suffix
EndsWithAny(s, suffixes) == \E x \in suffixes : EndsWith(s, x)

DotTxt == <<46, 116, 120, 116>>               \* ".txt"
DotDoc == <<46, 100, 111, 99>>                \* ".doc"
DotDocx == <<46, 100, 111, 99, 120>>          \* ".docx"

\* bytes.decode('utf-8') for one- and two-byte sequences; the bytes of the
\* model hold no lead byte of a longer sequence
RECURSIVE DecodeFrom(_, _, _)
DecodeFrom(b, i, acc) ==
    IF i > Len(b) THEN [ok |-> TRUE, text |-> acc]
    ELSE IF b[i] < 128 THEN DecodeFrom(b, i + 1, Append(acc, b[i]))
    ELSE IF b[i] >= 194 /\ b[i] <= 223 /\ i + 1 <= Len(b)
            /\ b[i + 1] >= 128 /\ b[i + 1] <= 191
    THEN DecodeFrom(b, i + 2, Append(acc, (b[i] - 192) * 64 + (b[i + 1] - 128)))
    ELSE [ok |-> FALSE, text |-> <<>>]
DecodeUtf8(b) == DecodeFrom(b, 1, <<>>)

\* an uploaded file, with what the environment does when it is processed:
\* whether writing its temporary copy succeeds, whether textract succeeds,
\* and the bytes textract returns
UploadFile(filename, content, write_ok, process_ok, output) ==
    [filename |-> filename, content |-> content, write_ok |-> write_ok,
     process_ok |-> process_ok, output |-> output]

GoodTxt == UploadFile(NameA, <<97, 195, 169>>, TRUE, TRUE, <<>>)
FileCases ==
    { GoodTxt,
      UploadFile(NameA, <<97, 255>>, TRUE, TRUE, <<>>),
      UploadFile(<<97, 46, 112, 100, 102>>, <<97>>, TRUE, TRUE, <<>>),
      UploadFile(<<65, 46, 84, 88, 84>>, <<97>>, TRUE, TRUE, <<98>>) }
    \cup
    { UploadFile(<<97, 46, 100, 111, 99, 120>>, <<80, 75>>, w, p, o) :
        w \in BOOLEAN, p \in BOOLEAN, o \in {<<98>>, <<255>>} }

\* HTTPException(status_code) leaving extract_text_from_file, or its text
ExtractRaise(status, created, deleted) ==
    [raised |-> TRUE, status |-> status, text |-> <<>>,
     created |-> created, deleted |-> deleted]
ExtractReturn(txt, created, deleted) ==
    [raised |-> FALSE, status |-> 200, text |-> txt,
     created |-> created, deleted |-> deleted]

\* lines 136-148: the temporary copy, textract, the finally clause.  The
\* with block creates the file (delete=False) and writes it; the try whose
\* finally unlinks it starts only after the with block.
ExtractWithTextract(file) ==
    IF ~file.write_ok
    THEN ExtractRaise(500, 1, 0)
    ELSE IF ~file.process_ok
    THEN ExtractRaise(500, 1, 1)
    ELSE LET d == DecodeUtf8(file.output)
         IN  IF d.ok THEN ExtractReturn(d.text, 1, 1) ELSE ExtractRaise(500, 1, 1)

\* extract_text_from_file(file_content, filename); every exception inside
\* the try, the HTTPException of line 152 included, leaves as a 500
ExtractTextFromFile(file, textract) ==
    IF EndsWith(file.filename, DotTxt)
    THEN LET d == DecodeUtf8(file.content)
         IN  IF d.ok THEN ExtractReturn(d.text, 0, 0) ELSE ExtractRaise(500, 0, 0)
    ELSE IF textract
    THEN ExtractWithTextract(file)
    ELSE IF ~EndsWith(file.filename, DotTxt)
    THEN ExtractRaise(500, 0, 0)
    ELSE LET d == DecodeUtf8(file.content)
         IN  IF d.ok THEN ExtractReturn(d.text, 0, 0) ELSE ExtractRaise(500, 0, 0)

(***************************************************************************)
(* POST /api/upload                                                        *)
(***************************************************************************)
AllowedExtensions(textract) ==
    IF ~textract THEN {DotTxt} ELSE {DotTxt, DotDoc, DotDocx}

\* the for loop of lines 180-205, from file i on; calls counts the embedding
\* calls made so far, leaked the temporary files left behind.  An exception
\* of the loop body leaves the handler through the except of line 213.
RECURSIVE UploadLoop(_, _, _, _, _, _, _)
UploadLoop(docs, files, i, script, calls, leaked, textract) ==
    IF i > Len(files)
    THEN [status |-> 200, documents |-> docs, leaked |-> leaked, count |-> Len(files)]
    ELSE IF ~EndsWithAny(Lower(files[i].filename), AllowedExtensions(textract))
    THEN [status |-> 500, documents |-> docs, leaked |-> leaked, count |-> 0]
    ELSE LET x == ExtractTextFromFile(files[i], textract)
             left == leaked + (x.created - x.deleted)
         IN  IF x.raised
             THEN [status |-> 500, documents |-> docs, leaked |-> left, count |-> 0]
             ELSE LET cs == CreateChunks(x.text, chunk_size, chunk_overlap)
                      a == AddDocument(docs, cs, files[i].filename,
                                       SubSeq(script, calls + 1, Len(script)))
                  IN  IF a.raised
                      THEN [status |-> 500, documents |-> a.documents,
                            leaked |-> left, count |-> 0]
                      ELSE UploadLoop(a.documents, files, i + 1, script,
                                      calls + a.embed_calls, left, textract)

UploadFiles(docs, files, script, textract) ==
    IF files = <<>>
    THEN [status |-> 400, documents |-> docs, leaked |-> 0, count |-> 0]
    ELSE IF Len(files) > MaxFilesPerUpload
    THEN [status |-> 400, documents |-> docs, leaked |-> 0, count |-> 0]
    ELSE UploadLoop(docs, files, 1, script, 0, 0, textract)

\* requests: some good .txt files, then at most one file of any kind
Repeat(x, n) == [i \in 1..n |-> x]
UploadRequests ==
    {Repeat(GoodTxt, n) : n \in 0..(MaxFilesPerUpload + MaxExtraFiles)}
    \cup {Repeat(GoodTxt, n) \o <<f>> :
            n \in 0..(MaxFilesPerUpload + MaxExtraFiles - 1), f \in FileCases}

\* provider scripts of an upload: every answer succeeds but the f-th
ScriptLen == MaxFilesPerUpload * StoreChunkSize
UploadScripts ==
    {[i \in 1..ScriptLen |-> IF i = f THEN Failure ELSE Success(<<1, 0>>)] :
        f \in 0..MaxFailAt}

UploadFrame == UNCHANGED <<chunk_size, chunk_overlap, TEXTRACT_AVAILABLE,
                           text, start, chunks, pc>>

UploadFilesCall ==
    /\ Len(documents) <= MaxUploadPre
    /\ \E files \in UploadRequests, script \in UploadScripts :
         LET r == UploadFiles(documents, files, script, TEXTRACT_AVAILABLE)
         IN  /\ temp_files + r.leaked <= MaxTemp
             /\ documents' = r.documents
             /\ temp_files' = temp_files + r.leaked
             /\ op' = "upload_files"
             /\ arg' = [files |-> files, script |-> script]
             /\ ret' = [status |-> r.status, count |-> r.count]
             /\ UploadFrame

ExtractTextCall ==
    \E file \in FileCases :
      LET x == ExtractTextFromFile(file, TEXTRACT_AVAILABLE)
      IN  /\ temp_files + (x.created - x.deleted) <= MaxTemp
          /\ temp_files' = temp_files + (x.created - x.deleted)
          /\ op' = "extract_text_from_file"
          /\ arg' = [file |-> file]
          /\ ret' = [raised |-> x.raised, status |-> x.status, text |-> x.text,
                     created |-> x.created]
          /\ UNCHANGED documents
          /\ UploadFrame

InitUpload ==
    /\ chunk_size = StoreChunkSize
    /\ chunk_overlap = StoreChunkOverlap
    /\ documents = <<>>
    /\ TEXTRACT_AVAILABLE \in BOOLEAN
    /\ temp_files = 0
    /\ text = <<>>
    /\ start = 0
    /\ chunks = <<>>
    /\ pc = "idle"
    /\ op = "__init__"
    /\ arg = NoCall
    /\ ret = NoCall

NextUpload == UploadFilesCall \/ ExtractTextCall

SpecUpload == InitUpload /\ [][NextUpload]_vars

(***************************************************************************)
(* Upload and extraction claims                                            *)
(***************************************************************************)
Processable(file) ==
    /\ EndsWithAny(Lower(file.filename), AllowedExtensions(TEXTRACT_AVAILABLE))
    /\ ~ExtractTextFromFile(file, TEXTRACT_AVAILABLE).raised

\* C8: /api/upload answers 400 to a request with no files, with more than 5
\* files, or with a file whose extension is not allowed, and 500 when the
\* extraction or the embedding of a file fails.
C8_UploadStatus ==
    op = "upload_files" =>
        LET files == arg.files
            bad_request ==
                \/ Len(files) = 0
                \/ Len(files) > MaxFilesPerUpload
                \/ \E i \in 1..Len(files) :
                      ~EndsWithAny(Lower(files[i].filename),
                                   AllowedExtensions(TEXTRACT_AVAILABLE))
        IN  /\ bad_request => ret.status = 400
            /\ (~bad_request /\ ret.status # 200) => ret.status = 500
            /\ (~bad_request /\ \E i \in 1..Len(files) : ~Processable(files[i]))
                  => ret.status = 500

\* C9: no temporary copy made by a completed extract_text_from_file is left
\* on disk, whichever way the call ended.
C9_TempFilesDeleted == temp_files = 0

====
